---- MODULE Spec2Model ----
(***************************************************************************)
(* FlashGuard PH: the arbitration core of flashguard_app.py.               *)
(*                                                                         *)
(* Python values are tagged records, so that values of different Python   *)
(* types can be compared: None, numbers, strings.  A string that the code  *)
(* inspects (upper(), lower(), "in") is a sequence of one-character        *)
(* strings.  Lengths are in decimetres (15.0 m is 150, 0.5 m is 5), which  *)
(* keeps the code's real-number comparisons exact over the integers.      *)
(***************************************************************************)
EXTENDS Integers, Sequences, FiniteSets, TLC

VARIABLES
    MOCK_ENVIRONMENTAL_DATA,  \* primary table: location key -> record
    ADVERSARIAL_MOCK_DATA,    \* secondary table: location key -> record
    pc,                       \* position inside dispatch_emergency_alert
    area_name,                \* its arguments ...
    action_plan,
    location_key,             \* ... and its locals
    sensor_record,
    toasts,                   \* the st.toast calls of the current call, in order
    ret,                      \* the last call made and what it returned
    requests,                 \* dispatch requests made so far
    social_reports,           \* what _mock_social_reports answers with
    session_state,            \* st.session_state: the four active_* entries
    previous                  \* the dispatch request made just before the one in ret

vars == <<MOCK_ENVIRONMENTAL_DATA, ADVERSARIAL_MOCK_DATA, pc, area_name, action_plan,
          location_key, sensor_record, toasts, ret, requests, social_reports,
          session_state, previous>>

\* ------------------------------------------------------------ bounds
\* Dispatch requests made in one run.
MaxRequests == 2
\* Largest rescue_requests_count a secondary record carries.
MaxRescue == 3

\* ------------------------------------------------------------ Python values
PyNone == [k |-> "none"]
\* The marker of a key that a dict does not hold (dict.get falls to its default).
MISSING == [k |-> "missing"]
Num(n) == [k |-> "num", n |-> n]
Str(s) == [k |-> "str", s |-> s]

\* bool(v) of a field value, as `x or default` evaluates it.
Truthy(v) ==
    CASE v.k = "none" -> FALSE
      [] v.k = "num" -> v.n # 0
      [] v.k = "str" -> v.s # << >>
      [] OTHER -> FALSE

\* d.get(key, default)
Get(d, key, default) == IF d[key] = MISSING THEN default ELSE d[key]

\* (x or default)
OrDefault(v, default) == IF Truthy(v) THEN v ELSE default

\* float(v): a number converts; a non-numeric string raises ValueError.
PyFloat(v) ==
    IF v.k = "num" THEN [raised |-> FALSE, n |-> v.n]
    ELSE [raised |-> TRUE, n |-> 0]

\* int(v): a number converts (the model's counts are whole); a non-numeric
\* string raises ValueError.
PyInt(v) ==
    IF v.k = "num" THEN [raised |-> FALSE, n |-> v.n]
    ELSE [raised |-> TRUE, n |-> 0]

UpperCase == <<"A","B","C","D","E","F","G","H","I","J","K","L","M",
               "N","O","P","Q","R","S","T","U","V","W","X","Y","Z">>
LowerCase == <<"a","b","c","d","e","f","g","h","i","j","k","l","m",
               "n","o","p","q","r","s","t","u","v","w","x","y","z">>

IndexIn(alphabet, c) ==
    IF \E i \in 1..Len(alphabet) : alphabet[i] = c
    THEN CHOOSE i \in 1..Len(alphabet) : alphabet[i] = c
    ELSE 0

\* str.upper()
Upper(s) ==
    [i \in 1..Len(s) |->
        IF IndexIn(LowerCase, s[i]) = 0 THEN s[i] ELSE UpperCase[IndexIn(LowerCase, s[i])]]

\* str.lower()
Lower(s) ==
    [i \in 1..Len(s) |->
        IF IndexIn(UpperCase, s[i]) = 0 THEN s[i] ELSE LowerCase[IndexIn(UpperCase, s[i])]]

\* needle in haystack (substring test)
Contains(needle, haystack) ==
    \E i \in 0..(Len(haystack) - Len(needle)) :
        SubSeq(haystack, i + 1, i + Len(needle)) = needle

\* str(v) of a status field
PyStr(v) ==
    CASE v.k = "str" -> v.s
      [] v.k = "none" -> <<"N","o","n","e">>
      [] OTHER -> << >>

\* ------------------------------------------------------------ literals
CRITICAL_SPILL_LEVEL ==
    <<"C","R","I","T","I","C","A","L","_","S","P","I","L","L","_","L","E","V","E","L">>
NORMAL == <<"N","O","R","M","A","L">>
CRITICAL == <<"C","R","I","T","I","C","A","L">>
SEVERE_FLOOD_WARNING ==
    <<"S","E","V","E","R","E","_","F","L","O","O","D","_","W","A","R","N","I","N","G">>
LOW_RISK == <<"L","O","W","_","R","I","S","K">>
Bulacan == <<"B","u","l","a","c","a","n">>
Marikina == <<"M","a","r","i","k","i","n","a">>

\* The default threshold of _is_sensor_critical, 999999 m.
SensorSentinel == 9999990
\* The default threshold of nemesis_ai, 999 m.
NemesisSentinel == 9990
\* 0.5 m of estimated inundation.
InundationLimit == 5
\* The rescue request count from which the secondary channel is critical.
RescueLimit == 2

\* The keys of LOCATION_COORDS, in insertion order.
LOCATION_COORDS == <<Bulacan, Marikina>>

\* ------------------------------------------------------------ results
Ret(v) == [raised |-> FALSE, value |-> v]
Raise == [raised |-> TRUE]

\* json.dumps in _standard_tool_response and nemesis_ai: the object becomes
\* a JSON text, which only json.loads opens again.
json_dumps(obj) == [k |-> "json", text |-> obj]
json_loads(s) == s.text

\* `not record`: None and the empty dict are both falsy.
NotRecord(record) ==
    IF record = PyNone THEN TRUE
    ELSE \A f \in DOMAIN record : record[f] = MISSING

\* ------------------------------------------------------------ classifier
\* Mutant: the threshold comparison is strict.
_is_sensor_critical_strict(record) ==
    IF NotRecord(record) THEN Ret(FALSE)
    ELSE IF Get(record, "status", PyNone) = Str(CRITICAL_SPILL_LEVEL) THEN Ret(TRUE)
    ELSE LET gauge == PyFloat(OrDefault(Get(record, "river_gauge_meters", Num(0)), Num(0)))
             threshold == PyFloat(OrDefault(Get(record, "critical_threshold_meters",
                                                Num(SensorSentinel)),
                                            Num(SensorSentinel)))
         IN  IF gauge.raised \/ threshold.raised THEN Raise
             ELSE Ret(gauge.n > threshold.n)

\* Mutant: a missing record fails open.
_is_sensor_critical_fail_open(record) ==
    IF NotRecord(record) THEN Ret(TRUE)
    ELSE IF Get(record, "status", PyNone) = Str(CRITICAL_SPILL_LEVEL) THEN Ret(TRUE)
    ELSE LET gauge == PyFloat(OrDefault(Get(record, "river_gauge_meters", Num(0)), Num(0)))
             threshold == PyFloat(OrDefault(Get(record, "critical_threshold_meters",
                                                Num(SensorSentinel)),
                                            Num(SensorSentinel)))
         IN  IF gauge.raised \/ threshold.raised THEN Raise
             ELSE Ret(gauge.n >= threshold.n)

_is_sensor_critical(record) ==
    IF NotRecord(record) THEN Ret(FALSE)
    ELSE IF Get(record, "status", PyNone) = Str(CRITICAL_SPILL_LEVEL) THEN Ret(TRUE)
    ELSE LET gauge == PyFloat(OrDefault(Get(record, "river_gauge_meters", Num(0)), Num(0)))
             threshold == PyFloat(OrDefault(Get(record, "critical_threshold_meters",
                                                Num(SensorSentinel)),
                                            Num(SensorSentinel)))
         IN  IF gauge.raised \/ threshold.raised THEN Raise
             ELSE Ret(gauge.n >= threshold.n)

\* ------------------------------------------------------------ arbiter
\* Lines 298-304: the arbiter's own rule for the primary channel.
primary_is_critical(primary) ==
    IF NotRecord(primary) THEN Ret(FALSE)
    ELSE LET gauge == PyFloat(OrDefault(Get(primary, "river_gauge_meters", Num(0)), Num(0)))
             threshold == PyFloat(OrDefault(Get(primary, "critical_threshold_meters",
                                                Num(NemesisSentinel)),
                                            Num(NemesisSentinel)))
         IN  IF gauge.raised \/ threshold.raised THEN Raise
             ELSE Ret(gauge.n >= threshold.n
                      \/ Contains(CRITICAL, Upper(PyStr(Get(primary, "status", Str(<< >>))))))

\* Mutant: the inundation bound is strict.
adversarial_is_critical_strict(adversarial) ==
    IF NotRecord(adversarial) THEN Ret(FALSE)
    ELSE IF Upper(PyStr(Get(adversarial, "alt_flood_status", Str(<< >>))))
                \in {SEVERE_FLOOD_WARNING, CRITICAL}
         THEN Ret(TRUE)
    ELSE LET inundation == PyFloat(OrDefault(Get(adversarial, "estimated_inundation_meters",
                                                 Num(0)), Num(0)))
         IN  IF inundation.raised THEN Raise
             ELSE IF inundation.n > InundationLimit THEN Ret(TRUE)
             ELSE LET count == PyInt(OrDefault(Get(adversarial, "rescue_requests_count",
                                                   Num(0)), Num(0)))
                  IN  IF count.raised THEN Raise
                      ELSE Ret(count.n >= RescueLimit)

\* Lines 307-313: the rule for the secondary channel, evaluated left to
\* right with Python's short-circuit `or`.
adversarial_is_critical(adversarial) ==
    IF NotRecord(adversarial) THEN Ret(FALSE)
    ELSE IF Upper(PyStr(Get(adversarial, "alt_flood_status", Str(<< >>))))
                \in {SEVERE_FLOOD_WARNING, CRITICAL}
         THEN Ret(TRUE)
    ELSE LET inundation == PyFloat(OrDefault(Get(adversarial, "estimated_inundation_meters",
                                                 Num(0)), Num(0)))
         IN  IF inundation.raised THEN Raise
             ELSE IF inundation.n >= InundationLimit THEN Ret(TRUE)
             ELSE LET count == PyInt(OrDefault(Get(adversarial, "rescue_requests_count",
                                                      Num(0)), Num(0)))
                  IN  IF count.raised THEN Raise
                      ELSE Ret(count.n >= RescueLimit)

\* dict.get(key) on one of the two evidence tables.
TableGet(table, key, default) == IF key \in DOMAIN table THEN table[key] ELSE default

\* Mutant: one critical channel is enough to approve.
DecideEither(p, a) ==
    IF p \/ a
    THEN [decision |-> "APPROVE",
          reason |-> "Both primary and adversarial sources indicate flood danger."]
    ELSE [decision |-> "BLOCK",
          reason |-> "Both sources indicate low risk for immediate auto-dispatch."]

\* Mutant: a conflict is reported with the low-risk reason.
DecideMerged(p, a) ==
    IF p /\ a
    THEN [decision |-> "APPROVE",
          reason |-> "Both primary and adversarial sources indicate flood danger."]
    ELSE [decision |-> "BLOCK",
          reason |-> "Both sources indicate low risk for immediate auto-dispatch."]

\* Lines 315-323: the decision and its reason.
Decide(p, a) ==
    IF p /\ a
    THEN [decision |-> "APPROVE",
          reason |-> "Both primary and adversarial sources indicate flood danger."]
    ELSE IF p # a
    THEN [decision |-> "BLOCK",
          reason |-> "Sources conflict. Escalate for human verification before dispatch."]
    ELSE [decision |-> "BLOCK",
          reason |-> "Both sources indicate low risk for immediate auto-dispatch."]

USED_SOURCES == <<"MOCK_ENVIRONMENTAL_DATA", "ADVERSARIAL_MOCK_DATA">>

\* The value nemesis_ai returns (a JSON text) or the exception it raises.
nemesis_ai(location_name) ==
    LET primary == TableGet(MOCK_ENVIRONMENTAL_DATA, location_name, PyNone)
        adversarial == TableGet(ADVERSARIAL_MOCK_DATA, location_name, PyNone)
    IN  IF NotRecord(primary) /\ NotRecord(adversarial)
        THEN Ret(json_dumps([location |-> location_name,
                             decision |-> "BLOCK",
                             reason |-> "No reliable data in either source.",
                             used_sources |-> USED_SOURCES]))
        ELSE LET p == primary_is_critical(primary)
             IN  IF p.raised THEN Raise
                 ELSE LET a == adversarial_is_critical(adversarial)
                      IN  IF a.raised THEN Raise
                          ELSE LET d == Decide(p.value, a.value)
                               IN  Ret(json_dumps(
                                     [location |-> location_name,
                                      decision |-> d.decision,
                                      reason |-> d.reason,
                                      primary_is_critical |-> p.value,
                                      adversarial_is_critical |-> a.value,
                                      used_sources |-> USED_SOURCES]))

\* ------------------------------------------------------------ resolver
\* dict.keys(): the keys of a table in insertion order.
Keys(table) == SelectSeq(LOCATION_COORDS, LAMBDA key : key \in DOMAIN table)

\* One `for known_location in ...: if known_location.lower() in text` loop:
\* the index of the first key found in the text, 0 when the loop falls through.
FirstMatch(keys, text) ==
    IF \E i \in 1..Len(keys) : Contains(Lower(keys[i]), text)
    THEN CHOOSE i \in 1..Len(keys) :
            /\ Contains(Lower(keys[i]), text)
            /\ \A j \in 1..(i - 1) : ~Contains(Lower(keys[j]), text)
    ELSE 0

\* Mutant: the keys are looked for in the text as typed, not lower-cased.
_infer_location_as_typed(input_text) ==
    IF input_text = << >> THEN input_text
    ELSE LET k1 == Keys(MOCK_ENVIRONMENTAL_DATA)
             k2 == Keys(ADVERSARIAL_MOCK_DATA)
             k3 == LOCATION_COORDS
         IN  IF FirstMatch(k1, input_text) # 0 THEN k1[FirstMatch(k1, input_text)]
             ELSE IF FirstMatch(k2, input_text) # 0 THEN k2[FirstMatch(k2, input_text)]
             ELSE IF FirstMatch(k3, input_text) # 0 THEN k3[FirstMatch(k3, input_text)]
             ELSE input_text

_infer_location_from_text(input_text) ==
    IF input_text = << >> THEN input_text
    ELSE LET text == Lower(input_text)
             k1 == Keys(MOCK_ENVIRONMENTAL_DATA)
             k2 == Keys(ADVERSARIAL_MOCK_DATA)
             k3 == LOCATION_COORDS
         IN  IF FirstMatch(k1, text) # 0 THEN k1[FirstMatch(k1, text)]
             ELSE IF FirstMatch(k2, text) # 0 THEN k2[FirstMatch(k2, text)]
             ELSE IF FirstMatch(k3, text) # 0 THEN k3[FirstMatch(k3, text)]
             ELSE input_text

\* ------------------------------------------------------------ evidence
MOCK_OFFICIAL_SENSOR ==
    <<"M","O","C","K","_","O","F","F","I","C","I","A","L","_","S","E","N","S","O","R">>
MOCK_ADVERSARIAL ==
    <<"M","O","C","K","_","A","D","V","E","R","S","A","R","I","A","L">>

\* The decision fields of the two records of MOCK_ENVIRONMENTAL_DATA.
BulacanSensor ==
    [status |-> Str(CRITICAL_SPILL_LEVEL), river_gauge_meters |-> Num(185),
     critical_threshold_meters |-> Num(150), data_source |-> Str(MOCK_OFFICIAL_SENSOR)]
MarikinaSensor ==
    [status |-> Str(NORMAL), river_gauge_meters |-> Num(121),
     critical_threshold_meters |-> Num(150), data_source |-> Str(MOCK_OFFICIAL_SENSOR)]

\* The decision fields of the two records of ADVERSARIAL_MOCK_DATA.
BulacanAdversarial ==
    [alt_flood_status |-> Str(SEVERE_FLOOD_WARNING), estimated_inundation_meters |-> Num(14),
     rescue_requests_count |-> Num(7), data_source |-> Str(MOCK_ADVERSARIAL)]
MarikinaAdversarial ==
    [alt_flood_status |-> Str(LOW_RISK), estimated_inundation_meters |-> Num(1),
     rescue_requests_count |-> Num(0), data_source |-> Str(MOCK_ADVERSARIAL)]

\* The empty dict of each channel.
EmptySensor ==
    [status |-> MISSING, river_gauge_meters |-> MISSING,
     critical_threshold_meters |-> MISSING, data_source |-> MISSING]
EmptyAdversarial ==
    [alt_flood_status |-> MISSING, estimated_inundation_meters |-> MISSING,
     rescue_requests_count |-> MISSING, data_source |-> MISSING]

\* A string no float() or int() parses.
Malformed == Str(<<"h","i","g","h">>)

StatusValues ==
    {MISSING, Str(CRITICAL_SPILL_LEVEL), Str(NORMAL), Str(<< >>), Str(CRITICAL),
     Str(Lower(CRITICAL_SPILL_LEVEL))}
GaugeValues ==
    {MISSING, PyNone, Num(0), Num(121), Num(150), Num(185), Num(NemesisSentinel),
     Num(SensorSentinel), Malformed}
ThresholdValues == {MISSING, PyNone, Num(135), Num(150), Malformed}

\* Every primary record the classifier is tried on.
PrimaryRecords ==
    {EmptySensor} \cup
    [status : StatusValues, river_gauge_meters : GaugeValues,
     critical_threshold_meters : ThresholdValues, data_source : {Str(MOCK_OFFICIAL_SENSOR)}]

AltStatusValues ==
    {MISSING, PyNone, Str(SEVERE_FLOOD_WARNING), Str(CRITICAL), Str(LOW_RISK),
     Str(Lower(CRITICAL))}
InundationValues == {MISSING, Num(1), Num(4), Num(5), Num(14), Malformed}
RescueValues == {MISSING, Malformed} \cup {Num(n) : n \in 0..MaxRescue}

\* Every secondary record the arbiter is tried on.
AdversarialRecords ==
    {EmptyAdversarial} \cup
    [alt_flood_status : AltStatusValues, estimated_inundation_meters : InundationValues,
     rescue_requests_count : RescueValues, data_source : {Str(MOCK_ADVERSARIAL)}]

\* The records the dispatch gate is run over: the repository's data, the
\* inclusive boundary, an unset threshold, a malformed reading, an empty dict.
GatePrimaryRecords ==
    {BulacanSensor, MarikinaSensor, EmptySensor,
     [BulacanSensor EXCEPT !.status = Str(<< >>), !.river_gauge_meters = Num(150)],
     [MarikinaSensor EXCEPT !.river_gauge_meters = Num(SensorSentinel),
                            !.critical_threshold_meters = MISSING],
     [BulacanSensor EXCEPT !.river_gauge_meters = Malformed],
     [MarikinaSensor EXCEPT !.river_gauge_meters = Malformed]}
GateAdversarialRecords ==
    {BulacanAdversarial, MarikinaAdversarial, EmptyAdversarial,
     [MarikinaAdversarial EXCEPT !.alt_flood_status = Str(Lower(CRITICAL))],
     [MarikinaAdversarial EXCEPT !.rescue_requests_count = Malformed]}

\* The tables of the gate's runs: Bulacan holds any of `records` or nothing,
\* Marikina holds the repository's record or nothing.
Tables(records, marikina) ==
    {b @@ m : b \in {<< >>} \cup {Bulacan :> r : r \in records},
              m \in {<< >>, Marikina :> marikina}}

Cebu == <<"C","e","b","u">>
\* The area_name arguments tried: exact keys, free text, an unknown place, "".
AreaNames ==
    {Bulacan, Marikina, <<"c","h","e","c","k"," ">> \o Upper(Bulacan), Cebu, << >>}
ActionPlans == {"Evacuate", ""}

\* ------------------------------------------------------------ citizen signal
\* The two answers of _mock_social_reports.
MarikinaReports ==
    [verified_reports_count |-> 3,
     highlights |-> <<"Waist-deep water reported on Main Street",
                      "1 user requesting boat rescue">>,
     confidence |-> "MEDIUM", data_source |-> "MOCK_SOCIAL"]
NoReports ==
    [verified_reports_count |-> 0, highlights |-> << >>,
     confidence |-> "LOW", data_source |-> "MOCK_SOCIAL"]
MockSocialReports == [marikina |-> MarikinaReports, elsewhere |-> NoReports]

\* Other citizen signals the runs are repeated with: none anywhere, and many
\* verified reports of high confidence everywhere.
ManyReports ==
    [MarikinaReports EXCEPT !.verified_reports_count = 9, !.confidence = "HIGH"]
SocialReports ==
    {MockSocialReports,
     [marikina |-> NoReports, elsewhere |-> NoReports],
     [marikina |-> ManyReports, elsewhere |-> ManyReports]}

\* _mock_social_reports
_mock_social_reports(name) ==
    IF name # << >> /\ Contains(<<"m","a","r","i","k","i","n","a">>, Lower(name))
    THEN social_reports.marikina
    ELSE social_reports.elsewhere

\* ------------------------------------------------------------ status context
\* "—", the source shown while no sensor is active.
NoSource == Str(<<"-">>)
UNKNOWN == <<"U","N","K","N","O","W","N">>

\* The prompts of the two scenario buttons, and other chat prompts.
BulacanPrompt ==
    <<"C","h","e","c","k"," ","f","l","o","o","d"," ","s","t","a","t","u","s"," ","i",
      "n"," ","B","u","l","a","c","a","n",".">>
MarikinaPrompt ==
    <<"C","h","e","c","k"," ","f","l","o","o","d"," ","s","t","a","t","u","s"," ","i",
      "n"," ","M","a","r","i","k","i","n","a",".">>
Prompts ==
    {BulacanPrompt, MarikinaPrompt, Lower(Marikina) \o <<"?">>, <<"h","e","l","p">>}

\* ------------------------------------------------------------ state
NoCall == [op |-> "none"]
\* The `out` of a call that has not returned yet.
Pending == [pending |-> TRUE]

\* The session state of a new session, lines 530-537.
SessionReady ==
    [active_location |-> PyNone, active_decision |-> "READY",
     active_sensor |-> EmptySensor, active_source |-> NoSource]

Idle ==
    /\ pc = "idle"
    /\ area_name = << >>
    /\ action_plan = ""
    /\ location_key = << >>
    /\ sensor_record = PyNone
    /\ toasts = << >>
    /\ ret = NoCall
    /\ requests = 0
    /\ session_state = SessionReady
    /\ previous = NoCall

\* The gate's runs.
Init ==
    /\ MOCK_ENVIRONMENTAL_DATA \in Tables(GatePrimaryRecords, MarikinaSensor)
    /\ ADVERSARIAL_MOCK_DATA \in Tables(GateAdversarialRecords, MarikinaAdversarial)
    /\ social_reports = MockSocialReports
    /\ Idle

\* _standard_tool_response
_standard_tool_response(ok, payload, message) ==
    json_dumps([ok |-> ok, message |-> message, payload |-> payload])

\* Leaving dispatch_emergency_alert: the locals are gone.
Leave(out) ==
    /\ ret' = [op |-> "dispatch_emergency_alert", area_name |-> area_name,
               action_plan |-> action_plan, out |-> out]
    /\ pc' = "idle"
    /\ area_name' = << >>
    /\ action_plan' = ""
    /\ location_key' = << >>
    /\ sensor_record' = PyNone

\* dispatch_emergency_alert, lines 476-479: the call, the resolution of the
\* location and the read of the primary record.
DispatchCall(area, plan) ==
    /\ pc = "idle"
    /\ requests < MaxRequests
    /\ requests' = requests + 1
    /\ area_name' = area
    /\ action_plan' = plan
    /\ toasts' = <<"validating">>
    /\ location_key' = _infer_location_from_text(area)
    /\ sensor_record' = TableGet(MOCK_ENVIRONMENTAL_DATA, _infer_location_from_text(area),
                                 EmptySensor)
    /\ ret' = [op |-> "dispatch_emergency_alert", area_name |-> area,
               action_plan |-> plan, out |-> Pending]
    /\ pc' = "gate1"
    /\ previous' = IF ret.op = "dispatch_emergency_alert" THEN ret ELSE NoCall
    /\ UNCHANGED <<MOCK_ENVIRONMENTAL_DATA, ADVERSARIAL_MOCK_DATA, social_reports,
                   session_state>>

\* The response of lines 483-491.
SensorBlock ==
    _standard_tool_response(
        FALSE,
        [area |-> location_key,
         reason |-> "Dispatch blocked: sensors are not critical.",
         sensor_status |-> Get(sensor_record, "status", Str(<<"U","N","K","N","O","W","N">>))],
        "SAFETY BLOCK: No evacuation alert sent.")

\* Mutant: the arbiter is consulted whatever the classifier says.
Gate1NoShortCircuit ==
    /\ pc = "gate1"
    /\ pc' = "gate2"
    /\ UNCHANGED <<area_name, action_plan, location_key, sensor_record, toasts, ret>>
    /\ UNCHANGED <<MOCK_ENVIRONMENTAL_DATA, ADVERSARIAL_MOCK_DATA, social_reports,
                   session_state, previous, requests>>

\* Mutant: verified citizen reports open the sensor gate too.
Gate1Social ==
    /\ pc = "gate1"
    /\ LET critical == _is_sensor_critical(sensor_record)
           reports == _mock_social_reports(location_key)
       IN  IF critical.raised
           THEN Leave(Raise) /\ UNCHANGED toasts
           ELSE IF ~critical.value /\ reports.verified_reports_count = 0
           THEN Leave(Ret(SensorBlock)) /\ UNCHANGED toasts
           ELSE /\ pc' = "gate2"
                /\ UNCHANGED <<area_name, action_plan, location_key, sensor_record, toasts, ret>>
    /\ UNCHANGED <<MOCK_ENVIRONMENTAL_DATA, ADVERSARIAL_MOCK_DATA, social_reports,
                   session_state, previous, requests>>

\* Mutant: a sensor denial also marks the status bar.
Gate1MarksContext ==
    /\ pc = "gate1"
    /\ LET critical == _is_sensor_critical(sensor_record)
       IN  IF critical.raised
           THEN Leave(Raise) /\ UNCHANGED <<toasts, session_state>>
           ELSE IF ~critical.value
           THEN /\ Leave(Ret(SensorBlock))
                /\ session_state' = [session_state EXCEPT !.active_decision = "NORMAL"]
                /\ UNCHANGED toasts
           ELSE /\ pc' = "gate2"
                /\ UNCHANGED <<area_name, action_plan, location_key, sensor_record, toasts, ret,
                               session_state>>
    /\ UNCHANGED <<MOCK_ENVIRONMENTAL_DATA, ADVERSARIAL_MOCK_DATA, social_reports,
                   previous, requests>>

\* Mutant: the sensor gate judges the record of the status bar.
Gate1FromContext ==
    /\ pc = "gate1"
    /\ LET critical == _is_sensor_critical(session_state.active_sensor)
       IN  IF critical.raised
           THEN Leave(Raise) /\ UNCHANGED toasts
           ELSE IF ~critical.value
           THEN Leave(Ret(SensorBlock)) /\ UNCHANGED toasts
           ELSE /\ pc' = "gate2"
                /\ UNCHANGED <<area_name, action_plan, location_key, sensor_record, toasts, ret>>
    /\ UNCHANGED <<MOCK_ENVIRONMENTAL_DATA, ADVERSARIAL_MOCK_DATA, social_reports,
                   session_state, previous, requests>>

\* Gate 1, lines 481-491.
Gate1 ==
    /\ pc = "gate1"
    /\ LET critical == _is_sensor_critical(sensor_record)
       IN  IF critical.raised
           THEN Leave(Raise) /\ UNCHANGED toasts
           ELSE IF ~critical.value
           THEN Leave(Ret(SensorBlock)) /\ UNCHANGED toasts
           ELSE /\ pc' = "gate2"
                /\ UNCHANGED <<area_name, action_plan, location_key, sensor_record, toasts, ret>>
    /\ UNCHANGED <<MOCK_ENVIRONMENTAL_DATA, ADVERSARIAL_MOCK_DATA, social_reports,
                   session_state, previous, requests>>

\* Mutant: the arbiter's denial carries the sensor gate's texts.
NemesisBlockGeneric(adversarial_verdict) ==
    _standard_tool_response(
        FALSE,
        [area |-> location_key,
         reason |-> "Dispatch blocked: sensors are not critical.",
         nemesis_decision |-> adversarial_verdict.decision],
        "SAFETY BLOCK: No evacuation alert sent.")

\* The response of lines 497-505.
NemesisBlock(adversarial_verdict) ==
    _standard_tool_response(
        FALSE,
        [area |-> location_key,
         reason |-> adversarial_verdict.reason,
         nemesis_decision |-> adversarial_verdict.decision],
        "SAFETY BLOCK: Nemesis AI blocked auto-dispatch.")

\* The response of lines 509-518.
Dispatched(adversarial_verdict) ==
    _standard_tool_response(
        TRUE,
        [area |-> location_key,
         action_plan |-> action_plan,
         dispatch |-> "Evacuation SMS broadcasted + resources coordinated (mock).",
         nemesis_decision |-> adversarial_verdict.decision],
        "SUCCESS: Evacuation alert dispatched.")

\* Mutant: the dispatch goes out whatever the arbiter decided.
Gate2Unchecked ==
    /\ pc = "gate2"
    /\ LET verdict == nemesis_ai(location_key)
       IN  IF verdict.raised
           THEN Leave(Raise) /\ toasts' = Append(toasts, "nemesis")
           ELSE /\ Leave(Ret(Dispatched(json_loads(verdict.value))))
                /\ toasts' = toasts \o <<"nemesis", "triggered">>
    /\ UNCHANGED <<MOCK_ENVIRONMENTAL_DATA, ADVERSARIAL_MOCK_DATA, social_reports,
                   session_state, previous, requests>>

\* Gate 2 and the dispatch, lines 493-518.
Gate2 ==
    /\ pc = "gate2"
    /\ LET verdict == nemesis_ai(location_key)
       IN  IF verdict.raised
           THEN Leave(Raise) /\ toasts' = Append(toasts, "nemesis")
           ELSE IF json_loads(verdict.value).decision # "APPROVE"
           THEN /\ Leave(Ret(NemesisBlock(json_loads(verdict.value))))
                /\ toasts' = toasts \o <<"nemesis", "blocked">>
           ELSE /\ Leave(Ret(Dispatched(json_loads(verdict.value))))
                /\ toasts' = toasts \o <<"nemesis", "triggered">>
    /\ UNCHANGED <<MOCK_ENVIRONMENTAL_DATA, ADVERSARIAL_MOCK_DATA, social_reports,
                   session_state, previous, requests>>

\* A direct call of nemesis_ai (the verdict panel, the tests).
CallNemesis(location_name) ==
    /\ pc = "idle"
    /\ ret' = [op |-> "nemesis_ai", location_name |-> location_name,
               out |-> nemesis_ai(location_name)]
    /\ toasts' = <<"nemesis">>
    /\ UNCHANGED <<MOCK_ENVIRONMENTAL_DATA, ADVERSARIAL_MOCK_DATA, social_reports,
                   session_state, previous, pc, area_name,
                   action_plan, location_key, sensor_record, requests>>

\* A direct call of _is_sensor_critical (the status bar, the cards, the tests).
CallClassifier(record) ==
    /\ pc = "idle"
    /\ ret' = [op |-> "_is_sensor_critical", record |-> record,
               out |-> _is_sensor_critical(record)]
    /\ toasts' = << >>
    /\ UNCHANGED <<MOCK_ENVIRONMENTAL_DATA, ADVERSARIAL_MOCK_DATA, social_reports,
                   session_state, previous, pc, area_name,
                   action_plan, location_key, sensor_record, requests>>

Next ==
    \/ \E area \in AreaNames, plan \in ActionPlans : DispatchCall(area, plan)
    \/ Gate1
    \/ Gate2
    \/ \E location_name \in {Bulacan, Marikina, Cebu} : CallNemesis(location_name)
    \/ \E key \in {Bulacan, Marikina, Cebu} :
          CallClassifier(TableGet(MOCK_ENVIRONMENTAL_DATA, key, PyNone))

Spec == Init /\ [][Next]_vars

\* ------------------------------------------------------------ classifier runs
\* The classifier alone, on every primary record; the tables are the
\* repository's.
InitClassifier ==
    /\ MOCK_ENVIRONMENTAL_DATA = (Bulacan :> BulacanSensor) @@ (Marikina :> MarikinaSensor)
    /\ ADVERSARIAL_MOCK_DATA =
          (Bulacan :> BulacanAdversarial) @@ (Marikina :> MarikinaAdversarial)
    /\ social_reports = MockSocialReports
    /\ Idle

NextClassifier == \E record \in PrimaryRecords \cup {PyNone} : CallClassifier(record)

SpecClassifier == InitClassifier /\ [][NextClassifier]_vars

\* ------------------------------------------------------------ arbiter runs
\* The arbiter alone: one channel of Bulacan ranges over every record while
\* the other ranges over the gate's records; Marikina may be in neither table.
InitArbiter ==
    /\ \E p \in PrimaryRecords, a \in AdversarialRecords,
          pKeys \in SUBSET {Bulacan}, aKeys \in SUBSET {Bulacan} :
          /\ p \in GatePrimaryRecords \/ a \in GateAdversarialRecords
          /\ MOCK_ENVIRONMENTAL_DATA = [key \in pKeys |-> p]
          /\ ADVERSARIAL_MOCK_DATA = [key \in aKeys |-> a]
    /\ social_reports = MockSocialReports
    /\ Idle

NextArbiter == \E location_name \in {Bulacan, Marikina} : CallNemesis(location_name)

SpecArbiter == InitArbiter /\ [][NextArbiter]_vars

\* ------------------------------------------------------------ session runs
\* check_social_media_reports
check_social_media_reports(name) ==
    LET reports == _mock_social_reports(name)
    IN  IF reports.verified_reports_count > 0
        THEN _standard_tool_response(TRUE, reports, "Citizen reports detected (mock).")
        ELSE _standard_tool_response(TRUE, reports,
                                     "No recent citizen reports found (mock).")

\* A call of the tool check_social_media_reports.
CallSocial(name) ==
    /\ pc = "idle"
    /\ ret' = [op |-> "check_social_media_reports", area_name |-> name,
               out |-> Ret(check_social_media_reports(name))]
    /\ toasts' = <<"scanning">>
    /\ UNCHANGED <<MOCK_ENVIRONMENTAL_DATA, ADVERSARIAL_MOCK_DATA, social_reports,
                   session_state, previous, pc, area_name, action_plan, location_key,
                   sensor_record, requests>>

\* Mutant: a location without a record keeps the sensor shown before.
_update_status_context_stale(location) ==
    IF ~Truthy(location) THEN Ret(SessionReady)
    ELSE LET sensor == TableGet(MOCK_ENVIRONMENTAL_DATA, location.s, PyNone)
         IN  IF NotRecord(sensor)
             THEN Ret([active_location |-> location, active_decision |-> "UNKNOWN",
                       active_sensor |-> session_state.active_sensor,
                       active_source |-> Str(UNKNOWN)])
             ELSE LET critical == _is_sensor_critical(sensor)
                  IN  IF critical.raised THEN Raise
                      ELSE Ret([active_location |-> location,
                                active_decision |->
                                    IF critical.value THEN "CRITICAL" ELSE "NORMAL",
                                active_sensor |-> sensor,
                                active_source |-> Get(sensor, "data_source", NoSource)])

\* _update_status_context: the session state it leaves, or the exception of
\* the classifier, which is raised before any entry is assigned.
_update_status_context(location) ==
    IF ~Truthy(location) THEN Ret(SessionReady)
    ELSE LET sensor == TableGet(MOCK_ENVIRONMENTAL_DATA, location.s, PyNone)
         IN  IF NotRecord(sensor)
             THEN Ret([active_location |-> location, active_decision |-> "UNKNOWN",
                       active_sensor |-> EmptySensor, active_source |-> Str(UNKNOWN)])
             ELSE LET critical == _is_sensor_critical(sensor)
                  IN  IF critical.raised THEN Raise
                      ELSE Ret([active_location |-> location,
                                active_decision |->
                                    IF critical.value THEN "CRITICAL" ELSE "NORMAL",
                                active_sensor |-> sensor,
                                active_source |-> Get(sensor, "data_source", NoSource)])

\* The status update of a chat turn, lines 650-654.
TurnContext(user_prompt) ==
    LET loc == _infer_location_from_text(user_prompt)
    IN  IF loc \in DOMAIN MOCK_ENVIRONMENTAL_DATA
        THEN _update_status_context(Str(loc))
        ELSE _update_status_context(PyNone)

\* A script run leaves the calls of the tools alone.
Rerun ==
    UNCHANGED <<MOCK_ENVIRONMENTAL_DATA, ADVERSARIAL_MOCK_DATA, social_reports, previous,
                pc, area_name, action_plan, location_key, sensor_record, toasts, ret,
                requests>>

\* A chat turn on a typed prompt: an exception ends the run with the session
\* state as it was.
ChatTurn(user_prompt) ==
    /\ pc = "idle"
    /\ session_state' = IF TurnContext(user_prompt).raised THEN session_state
                        ELSE TurnContext(user_prompt).value
    /\ Rerun

\* A scenario button, lines 549-555: the status update of the button, then, in
\* the same run, the chat turn on the button's prompt.
Scenario(location, demo_prompt) ==
    /\ pc = "idle"
    /\ session_state' =
          IF _update_status_context(Str(location)).raised THEN session_state
          ELSE IF TurnContext(demo_prompt).raised
          THEN _update_status_context(Str(location)).value
          ELSE TurnContext(demo_prompt).value
    /\ Rerun

ScenarioA == Scenario(Bulacan, BulacanPrompt)
ScenarioB == Scenario(Marikina, MarikinaPrompt)

\* The Reset Demo button, lines 557-561.
ResetDemo ==
    /\ pc = "idle"
    /\ session_state' = _update_status_context(PyNone).value
    /\ Rerun

\* The primary records of the session's runs: the repository's two, an empty
\* dict and a malformed reading.
SessionPrimaryRecords ==
    {BulacanSensor, MarikinaSensor, EmptySensor,
     [MarikinaSensor EXCEPT !.river_gauge_meters = Malformed]}
SessionAreaNames == {Bulacan, Marikina, <<"c","h","e","c","k"," ">> \o Upper(Bulacan)}

InitSession ==
    /\ MOCK_ENVIRONMENTAL_DATA \in Tables(SessionPrimaryRecords, MarikinaSensor)
    /\ ADVERSARIAL_MOCK_DATA \in
          Tables({BulacanAdversarial, MarikinaAdversarial}, MarikinaAdversarial)
    /\ social_reports \in SocialReports
    /\ Idle

NextSession ==
    \/ ScenarioA
    \/ ScenarioB
    \/ ResetDemo
    \/ \E user_prompt \in Prompts : ChatTurn(user_prompt)
    \/ \E name \in SessionAreaNames : CallSocial(name)
    \/ \E area \in SessionAreaNames : DispatchCall(area, "Evacuate")
    \/ Gate1
    \/ Gate2
    \/ \E location_name \in {Bulacan, Marikina} : CallNemesis(location_name)

SpecSession == InitSession /\ [][NextSession]_vars

\* ------------------------------------------------------------ resolver runs
\* A direct call of _infer_location_from_text (the chat turn, the tests).
CallInfer(input_text) ==
    /\ pc = "idle"
    /\ ret' = [op |-> "_infer_location_from_text", input_text |-> input_text,
               out |-> Ret(_infer_location_from_text(input_text))]
    /\ toasts' = << >>
    /\ UNCHANGED <<MOCK_ENVIRONMENTAL_DATA, ADVERSARIAL_MOCK_DATA, social_reports,
                   session_state, previous, pc, area_name, action_plan, location_key,
                   sensor_record, requests>>

\* The texts resolved: exact keys, free text in either case, a text naming
\* both locations, texts naming none, "".
Texts ==
    {Bulacan, Marikina, <<"c","h","e","c","k"," ">> \o Upper(Bulacan),
     Lower(Marikina) \o <<"?">>, Lower(Marikina) \o <<" ">> \o Bulacan,
     Cebu, <<"h","e","l","p">>, << >>}

\* Either table may hold either key or not; LOCATION_COORDS holds both.
InitResolver ==
    /\ MOCK_ENVIRONMENTAL_DATA \in Tables({BulacanSensor, MarikinaSensor}, MarikinaSensor)
    /\ ADVERSARIAL_MOCK_DATA \in
          Tables({BulacanAdversarial, MarikinaAdversarial}, MarikinaAdversarial)
    /\ social_reports = MockSocialReports
    /\ Idle

NextResolver ==
    \/ \E input_text \in Texts : CallInfer(input_text)
    \/ \E area \in Texts : DispatchCall(area, "Evacuate")
    \/ Gate1
    \/ Gate2

SpecResolver == InitResolver /\ [][NextResolver]_vars

\* ------------------------------------------------------------ claims
Range(seq) == {seq[i] : i \in 1..Len(seq)}

\* A call of dispatch_emergency_alert that has returned a response.
DispatchReturned ==
    /\ ret.op = "dispatch_emergency_alert"
    /\ ret.out # Pending
    /\ ~ret.out.raised
Response == json_loads(ret.out.value)

\* What the request of `ret` is decided on: the resolved key and the two
\* records of that key, read from the tables again.
RequestKey == _infer_location_from_text(ret.area_name)
RequestPrimary == TableGet(MOCK_ENVIRONMENTAL_DATA, RequestKey, PyNone)
RequestAdversarial == TableGet(ADVERSARIAL_MOCK_DATA, RequestKey, PyNone)
SensorGatePasses == _is_sensor_critical(RequestPrimary) = Ret(TRUE)
ArbiterApproves ==
    /\ ~nemesis_ai(RequestKey).raised
    /\ json_loads(nemesis_ai(RequestKey).value).decision = "APPROVE"

\* C1: a dispatch is authorized (ok = true, the dispatch emitted) only if the
\* classifier is true on the primary record of the resolved location and the
\* arbiter approves that location, its secondary record present and critical;
\* no request emits a dispatch while a gate is false.
C1_AuthorizedOnlyIfBothGates ==
    /\ (DispatchReturned /\ Response.ok) =>
          /\ SensorGatePasses
          /\ ArbiterApproves
          /\ ~NotRecord(RequestAdversarial)
          /\ adversarial_is_critical(RequestAdversarial) = Ret(TRUE)
    /\ "triggered" \in Range(toasts) =>
          /\ DispatchReturned /\ Response.ok
          /\ SensorGatePasses
          /\ ArbiterApproves

C1_Witness ==
    /\ DispatchReturned /\ Response.ok
    /\ "triggered" \in Range(toasts)
    /\ requests = MaxRequests

\* A direct call of nemesis_ai that has returned a verdict.
NemesisReturned == ret.op = "nemesis_ai" /\ ~ret.out.raised
Verdict == json_loads(ret.out.value)
NemesisPrimary == TableGet(MOCK_ENVIRONMENTAL_DATA, ret.location_name, PyNone)
NemesisAdversarial == TableGet(ADVERSARIAL_MOCK_DATA, ret.location_name, PyNone)
\* A criticality boolean of a verdict; the verdict of the no-data return
\* carries none.
Flag(verdict, name) == IF name \in DOMAIN verdict THEN verdict[name] ELSE FALSE

NoDataReason == "No reliable data in either source."
ConflictReason == "Sources conflict. Escalate for human verification before dispatch."
LowRiskReason == "Both sources indicate low risk for immediate auto-dispatch."
SensorReason == "Dispatch blocked: sensors are not critical."
SensorMessage == "SAFETY BLOCK: No evacuation alert sent."
NemesisMessage == "SAFETY BLOCK: Nemesis AI blocked auto-dispatch."

\* C2: the arbiter's decision is APPROVE exactly when both criticality
\* booleans are true and BLOCK otherwise; an absent record contributes false.
C2_ArbiterTruthTable ==
    NemesisReturned =>
        /\ Verdict.decision \in {"APPROVE", "BLOCK"}
        /\ Verdict.decision = "APPROVE" <=>
              (Flag(Verdict, "primary_is_critical") /\ Flag(Verdict, "adversarial_is_critical"))
        /\ NotRecord(NemesisPrimary) => ~Flag(Verdict, "primary_is_critical")
        /\ NotRecord(NemesisAdversarial) => ~Flag(Verdict, "adversarial_is_critical")

C2_Witness ==
    /\ NemesisReturned
    /\ Flag(Verdict, "primary_is_critical")
    /\ ~Flag(Verdict, "adversarial_is_critical")
    /\ NotRecord(NemesisAdversarial)
    /\ Verdict.decision = "BLOCK"

\* C3: in a dispatch request nemesis_ai is invoked only after the sensor gate
\* has passed; when the sensor gate denies, the request never invokes it.
C3_GateShortCircuit ==
    /\ (ret.op = "dispatch_emergency_alert" /\ "nemesis" \in Range(toasts)) => SensorGatePasses
    /\ (DispatchReturned /\ ~SensorGatePasses) => toasts = <<"validating">>

C3_Witness ==
    /\ DispatchReturned
    /\ _is_sensor_critical(RequestPrimary) = Ret(FALSE)
    /\ ~NotRecord(RequestPrimary)
    /\ adversarial_is_critical(RequestAdversarial) = Ret(TRUE)
    /\ "nemesis" \notin Range(toasts)

\* A primary record with status, gauge and threshold present, threshold > 0.
WellFormedPrimary(record) ==
    /\ record # PyNone
    /\ record.status.k = "str"
    /\ record.river_gauge_meters.k = "num"
    /\ record.critical_threshold_meters.k = "num"
    /\ record.critical_threshold_meters.n > 0

\* C4: on a record with status, gauge and threshold present the classifier is
\* true iff status = "CRITICAL_SPILL_LEVEL" or gauge >= threshold, the bound
\* inclusive.
C4_ClassifierRule ==
    (ret.op = "_is_sensor_critical" /\ WellFormedPrimary(ret.record)) =>
        ret.out = Ret(\/ ret.record.status = Str(CRITICAL_SPILL_LEVEL)
                      \/ ret.record.river_gauge_meters.n >= ret.record.critical_threshold_meters.n)

C4_Witness ==
    /\ ret.op = "_is_sensor_critical"
    /\ WellFormedPrimary(ret.record)
    /\ ret.record.status = Str(<< >>)
    /\ ret.record.river_gauge_meters = ret.record.critical_threshold_meters
    /\ ret.out = Ret(TRUE)

\* C5: the classifier is false on an absent or empty record, and a dispatch
\* for a location without primary record is denied at the sensor gate,
\* whatever the secondary table holds.
C5_MissingRecordNotCritical ==
    /\ (ret.op = "_is_sensor_critical" /\ NotRecord(ret.record)) => ret.out = Ret(FALSE)
    /\ (ret.op = "dispatch_emergency_alert" /\ ret.out # Pending /\ NotRecord(RequestPrimary)) =>
          /\ ~ret.out.raised
          /\ ~Response.ok
          /\ Response.payload.reason = SensorReason
          /\ "nemesis" \notin Range(toasts)

C5_Witness ==
    /\ DispatchReturned
    /\ RequestKey \notin DOMAIN MOCK_ENVIRONMENTAL_DATA
    /\ RequestAdversarial = BulacanAdversarial
    /\ Response.payload.reason = SensorReason

\* A record whose threshold is unset, whose gauge is a number and whose
\* status is no critical tag.
ThresholdUnset(record) ==
    /\ ~NotRecord(record)
    /\ record.critical_threshold_meters \in {MISSING, PyNone}
    /\ record.river_gauge_meters.k = "num"
    /\ ~Contains(CRITICAL, Upper(PyStr(Get(record, "status", Str(<< >>)))))

\* C6: a record with an unset threshold and no critical status is classified
\* not critical for every gauge reading, by the classifier and by the arbiter.
C6_UnsetThresholdNeverCritical ==
    /\ (ret.op = "_is_sensor_critical" /\ ThresholdUnset(ret.record)) => ret.out = Ret(FALSE)
    /\ (NemesisReturned /\ ThresholdUnset(NemesisPrimary)) =>
          ~Flag(Verdict, "primary_is_critical")

\* A verdict on a present secondary record whose inundation and rescue
\* count are numbers or unset.
SecondaryJudged ==
    /\ NemesisReturned
    /\ ~NotRecord(NemesisAdversarial)
    /\ NemesisAdversarial.estimated_inundation_meters.k \in {"num", "missing"}
    /\ NemesisAdversarial.rescue_requests_count.k \in {"num", "missing"}
NumberOr0(v) == IF v.k = "num" THEN v.n ELSE 0
SecondaryNumbersCritical ==
    \/ NumberOr0(NemesisAdversarial.estimated_inundation_meters) >= 5
    \/ NumberOr0(NemesisAdversarial.rescue_requests_count) >= 2

C8_BlockReasons ==
    (NemesisReturned /\ Verdict.decision = "BLOCK") =>
        LET p == Flag(Verdict, "primary_is_critical")
            a == Flag(Verdict, "adversarial_is_critical")
            neither == NotRecord(NemesisPrimary) /\ NotRecord(NemesisAdversarial)
        IN  /\ Verdict.reason \in {NoDataReason, ConflictReason, LowRiskReason}
            /\ Verdict.reason = NoDataReason <=> neither
            /\ Verdict.reason = ConflictReason <=> (p # a)
            /\ Verdict.reason = LowRiskReason <=> (~neither /\ ~p /\ ~a)

C8_Witness ==
    /\ NemesisReturned
    /\ Verdict.reason = ConflictReason
    /\ ~Flag(Verdict, "primary_is_critical")
    /\ NotRecord(NemesisPrimary)

\* C9: a denial of the gate tells which gate denied: the sensor texts iff the
\* sensor gate failed, the arbiter's reason under the Nemesis message iff the
\* sensor gate passed and the arbiter did not approve.
C9_DenialReasons ==
    (DispatchReturned /\ ~Response.ok) =>
        LET sensorDenied == _is_sensor_critical(RequestPrimary) = Ret(FALSE)
            arbiterDenied == SensorGatePasses /\ ~ArbiterApproves
        IN  /\ sensorDenied # arbiterDenied
            /\ sensorDenied <=>
                  (Response.payload.reason = SensorReason /\ Response.message = SensorMessage)
            /\ arbiterDenied <=>
                  /\ Response.message = NemesisMessage
                  /\ Response.payload.reason = json_loads(nemesis_ai(RequestKey).value).reason
                  /\ "nemesis_decision" \in DOMAIN Response.payload
            /\ arbiterDenied => Response.payload.reason # SensorReason

C9_Witness ==
    /\ DispatchReturned
    /\ ~Response.ok
    /\ Response.message = NemesisMessage
    /\ Response.payload.reason = ConflictReason

\* C10: the classifier and the arbiter return for every record, a malformed
\* field included; they never raise.
C10_NeverRaises ==
    ret.op \in {"_is_sensor_critical", "nemesis_ai"} => ~ret.out.raised

\* A call of dispatch_emergency_alert that has finished, by a response or by
\* an exception.
DispatchFinished == ret.op = "dispatch_emergency_alert" /\ ret.out # Pending

\* C11: a request with an empty location or an empty action plan ends in an
\* invocation error, which is neither of the two evidentiary denials, and is
\* never authorized.
C11_MisuseRejected ==
    (DispatchFinished /\ (ret.area_name = << >> \/ ret.action_plan = "")) =>
        \/ ret.out.raised
        \/ /\ ~Response.ok
           /\ Response.message \notin {SensorMessage, NemesisMessage}

\* dispatch_emergency_alert as a function of its arguments and the two
\* tables: what lines 476-518 return or raise.
DispatchOutcome(area, plan) ==
    LET key == _infer_location_from_text(area)
        record == TableGet(MOCK_ENVIRONMENTAL_DATA, key, EmptySensor)
        critical == _is_sensor_critical(record)
        verdict == nemesis_ai(key)
    IN  IF critical.raised THEN Raise
        ELSE IF ~critical.value
        THEN Ret(_standard_tool_response(
                     FALSE,
                     [area |-> key, reason |-> SensorReason,
                      sensor_status |-> Get(record, "status", Str(UNKNOWN))],
                     SensorMessage))
        ELSE IF verdict.raised THEN Raise
        ELSE IF json_loads(verdict.value).decision # "APPROVE"
        THEN Ret(_standard_tool_response(
                     FALSE,
                     [area |-> key, reason |-> json_loads(verdict.value).reason,
                      nemesis_decision |-> json_loads(verdict.value).decision],
                     NemesisMessage))
        ELSE Ret(_standard_tool_response(
                     TRUE,
                     [area |-> key, action_plan |-> plan,
                      dispatch |-> "Evacuation SMS broadcasted + resources coordinated (mock).",
                      nemesis_decision |-> json_loads(verdict.value).decision],
                     "SUCCESS: Evacuation alert dispatched."))

\* C12: whatever the citizen signal holds (report count, highlights,
\* confidence), a dispatch request ends as its location, its plan and the two
\* tables alone determine, and so does a call of the arbiter: two runs that
\* differ only in the citizen signal get identical results.
C12_SocialNeverGates ==
    /\ DispatchFinished => ret.out = DispatchOutcome(ret.area_name, ret.action_plan)
    /\ ret.op = "nemesis_ai" => ret.out = nemesis_ai(ret.location_name)

\* A request on a location with many verified citizen reports of high
\* confidence and a primary record that is not critical: it is denied.
C12_Witness ==
    /\ DispatchReturned
    /\ _mock_social_reports(ret.area_name) = ManyReports
    /\ _is_sensor_critical(RequestPrimary) = Ret(FALSE)
    /\ ~NotRecord(RequestPrimary)
    /\ ~Response.ok

\* C13: a dispatch request that repeats the request made just before it, same
\* location and same plan, ends exactly as that one did, whatever happened to
\* the status context in between.
C13_RepeatedRequest ==
    (/\ DispatchFinished
     /\ previous # NoCall
     /\ previous.area_name = ret.area_name
     /\ previous.action_plan = ret.action_plan) => ret.out = previous.out

\* The same authorized request twice, the status context changed in between.
C13_Witness ==
    /\ DispatchReturned /\ Response.ok
    /\ previous # NoCall
    /\ previous.area_name = ret.area_name
    /\ previous.action_plan = ret.action_plan
    /\ session_state.active_decision = "NORMAL"

\* C14: no step of a dispatch request, from the call to its return, writes the
\* primary table, the secondary table or the status context, so a denied
\* request leaves them as they were; the dispatch effect is emitted only by
\* the step that follows both gates and returns ok = true, and a request that
\* ends denied has emitted none.
C14_DenialFrame ==
    [][/\ (pc # "idle" \/ pc' # "idle") =>
             UNCHANGED <<MOCK_ENVIRONMENTAL_DATA, ADVERSARIAL_MOCK_DATA, session_state>>
       /\ ("triggered" \in Range(toasts') /\ toasts' # toasts) =>
             /\ pc = "gate2"
             /\ DispatchReturned' /\ Response'.ok
       /\ (pc # "idle" /\ DispatchReturned' /\ ~Response'.ok) =>
             "triggered" \notin Range(toasts')]_vars

\* A request denied by the arbiter while the status bar shows CRITICAL.
C14_Witness ==
    /\ DispatchReturned
    /\ ~Response.ok
    /\ Response.message = NemesisMessage
    /\ session_state.active_decision = "CRITICAL"
    /\ session_state.active_location = Str(Response.payload.area)

\* Where the request of `ret` stands in the request state machine; RAISED is
\* a request that ended in an exception.
RequestState ==
    IF ret.op # "dispatch_emergency_alert" THEN "NONE"
    ELSE IF ret.out = Pending THEN "PENDING"
    ELSE IF ret.out.raised THEN "RAISED"
    ELSE IF Response.ok THEN "AUTHORIZED"
    ELSE IF Response.message = SensorMessage THEN "SENSOR_BLOCKED"
    ELSE "ARBITER_BLOCKED"

TerminalOutcomes == {"SENSOR_BLOCKED", "ARBITER_BLOCKED", "AUTHORIZED"}

\* C15: a request starts in PENDING whatever came before it, leaves PENDING
\* only for one of SENSOR_BLOCKED, ARBITER_BLOCKED and AUTHORIZED, and once in
\* one of these makes no further transition; only a new request, which starts
\* in PENDING again, replaces it.
C15_RequestStateMachine ==
    [][/\ requests' # requests => RequestState' = "PENDING"
       /\ (RequestState = "PENDING" /\ RequestState' # "PENDING") =>
             RequestState' \in TerminalOutcomes
       /\ (RequestState \in TerminalOutcomes /\ requests' = requests) =>
             RequestState' \in {RequestState, "NONE"}]_vars

\* C16: the primary_is_critical of a verdict of nemesis_ai is what
\* _is_sensor_critical returns on the primary record of the same location.
C16_ArbiterAgreesWithClassifier ==
    (NemesisReturned /\ "primary_is_critical" \in DOMAIN Verdict) =>
        _is_sensor_critical(NemesisPrimary) = Ret(Verdict.primary_is_critical)

\* C17: once the sensor gate of a request has passed, the arbiter called on
\* the resolved key computes primary_is_critical = true; a denial
\* of the arbiter stage carries the conflict reason, and no response of a
\* request carries the no-data or the low-risk reason.
C17_GatePassMeansPrimaryCritical ==
    /\ pc = "gate2" =>
          primary_is_critical(TableGet(MOCK_ENVIRONMENTAL_DATA, location_key, PyNone))
              = Ret(TRUE)
    /\ (DispatchReturned /\ ~Response.ok) =>
          /\ Response.message = NemesisMessage => Response.payload.reason = ConflictReason
          /\ Response.payload.reason \notin {NoDataReason, LowRiskReason}

\* The primary record of the location the status bar shows.
ActiveRecord ==
    TableGet(MOCK_ENVIRONMENTAL_DATA, session_state.active_location.s, PyNone)

\* C18: after any sequence of scenario buttons, resets and chat turns the
\* decision of the status context is READY, UNKNOWN, NORMAL or CRITICAL; it is
\* READY exactly when no location is active; it is CRITICAL (NORMAL) only if
\* the active location has a primary record, that record is the active sensor
\* and the classifier is true (false) on it; and the active sensor is empty
\* while the decision is READY or UNKNOWN.
C18_DecisionContext ==
    /\ session_state.active_decision \in {"READY", "UNKNOWN", "NORMAL", "CRITICAL"}
    /\ session_state.active_decision = "READY" <=> session_state.active_location = PyNone
    /\ session_state.active_decision \in {"NORMAL", "CRITICAL"} =>
          /\ ~NotRecord(ActiveRecord)
          /\ session_state.active_sensor = ActiveRecord
          /\ _is_sensor_critical(ActiveRecord)
                = Ret(session_state.active_decision = "CRITICAL")
    /\ session_state.active_decision \in {"READY", "UNKNOWN"} =>
          session_state.active_sensor = EmptySensor

\* Scenario A on a table whose Bulacan record is an empty dict: the status bar
\* shows the location as UNKNOWN.
C18_Witness ==
    /\ session_state.active_decision = "UNKNOWN"
    /\ session_state.active_location = Str(Bulacan)
    /\ Bulacan \in DOMAIN MOCK_ENVIRONMENTAL_DATA
    /\ NotRecord(ActiveRecord)

\* The keys _infer_location_from_text looks for.
KnownKeys ==
    DOMAIN MOCK_ENVIRONMENTAL_DATA \cup DOMAIN ADVERSARIAL_MOCK_DATA
        \cup Range(LOCATION_COORDS)
Names(text) == {key \in KnownKeys : Contains(Lower(key), Lower(text))}

\* C19: _infer_location_from_text returns a known key that the text contains,
\* in whatever case, when there is one, and the text itself when there is
\* none or the text is empty; resolving its result again returns the same
\* result; and a dispatch request ends exactly as the request with the
\* resolved key in place of the text, its response naming that key.
C19_LocationResolution ==
    /\ ret.op = "_infer_location_from_text" =>
          /\ Names(ret.input_text) # {} => ret.out.value \in Names(ret.input_text)
          /\ Names(ret.input_text) = {} => ret.out.value = ret.input_text
          /\ _infer_location_from_text(ret.out.value) = ret.out.value
    /\ DispatchFinished =>
          ret.out = DispatchOutcome(RequestKey, ret.action_plan)
    /\ DispatchReturned => Response.payload.area = RequestKey

\* A request in free text, not the exact key, is authorized.
C19_Witness ==
    /\ DispatchReturned /\ Response.ok
    /\ ret.area_name # RequestKey
    /\ RequestKey \in KnownKeys

====
